---- MODULE Spec2Model ----
(***************************************************************************)
(* A model of the circuit-building, streamline and morphology operators of *)
(* the NeuroMorphoVis DBS add-on.  Blender objects are records holding the *)
(* Blender object type, the parent link and the custom properties the      *)
(* add-on reads and writes; an absent custom property is the empty         *)
(* sequence <<>> and a present one is the one-element sequence <<value>>.  *)
(***************************************************************************)
EXTENDS Integers, Sequences, FiniteSets, TLC

VARIABLES
    objects,      \* bpy.data.objects: sequence of Blender objects
    selected,     \* context.selected_objects: set of indices into objects
    neurons,      \* circuit_data.neurons: GID -> Neuron
    nm_group,     \* members of the group 'Neuron Morphologies'
    gid_counter,  \* skeleton.neuron.gid_counter
    constructed,  \* the Neuron instances constructed so far, in order
    circuit_file, \* the circuit configuration written by ExportCircuit
    DefinedPopLabels, \* scene.DefinedPopLabels: the population chosen
    report,       \* the last operator run and how it ended
    tck_pts,      \* polyline_to_nurbs: the points of the polyline
    subsample,    \* polyline_to_nurbs: the subsample factor
    ctl_pts,      \* polyline_to_nurbs: the control points of the NURBS
    file_streamlines,     \* load_streamlines: the streamlines of the file
    max_num,              \* load_streamlines: argument max_num
    min_length,           \* load_streamlines: argument min_length
    streamlines_filtered, \* load_streamlines: <<>> or <<the list returned>>
    self_swc_samples,     \* Neuron.swc_samples of the neuron sampled
    self_matrix_world,    \* matrix_world of its soma geometry (4 x 4)
    transformed_samples,  \* get_transformed_samples: <<>> or <<the result>>
    layout_method,        \* scene.DuplicationLayoutMethod
    bbox_dims,            \* extent of the boundary's bounding box, per axis
    inside_pts,           \* the points inside the boundary volume
    random_pts,           \* the points np.random.random produces
    src_loc,              \* source_object.location
    max_duplicates,       \* scene.MaxCellDuplicates
    dup_origins,          \* make_duplicate_origins: how the call ended
    ui_morphologies,      \* nmvif.ui_morphologies: labels, in list order
    ui_reconstructed_skeletons, \* label -> names of the geometry objects
    active_object,        \* scene.objects.active: <<label, object name>>
    output_directory,     \* state of the output directory
    exported_files,       \* labels written to SWC files, in order
    export_report,        \* how ExportMorphologies ended
    toggle_log,           \* the last two runs of axon.toggle_export
    morphology,           \* the Morphology whose points are transformed
    matrix,               \* transform_sample_points: argument matrix
    transform_status,     \* how transform_sample_points ended
    knots_n,              \* knots: argument n
    knots_order,          \* knots: argument order
    knots_type,           \* knots: argument type
    kv                    \* knots: <<>> or <<how the call ended>>

circuitVars == <<objects, selected, neurons, nm_group, gid_counter,
                 constructed, circuit_file, DefinedPopLabels, report>>

nurbsVars == <<tck_pts, subsample, ctl_pts>>

loadVars == <<file_streamlines, max_num, min_length, streamlines_filtered>>

samplesVars == <<self_swc_samples, self_matrix_world, transformed_samples>>

dupVars == <<layout_method, bbox_dims, inside_pts, random_pts, src_loc,
             max_duplicates, dup_origins>>

exportVars == <<ui_morphologies, ui_reconstructed_skeletons, active_object,
                output_directory, exported_files, export_report>>

toggleVars == <<toggle_log>>

morphVars == <<morphology, matrix, transform_status>>

knotVars == <<knots_n, knots_order, knots_type, kv>>

\* the variables of the functions checked on their own
pureVars == <<nurbsVars, loadVars, samplesVars, dupVars, exportVars,
              toggleVars, morphVars, knotVars>>

vars == <<circuitVars, pureVars>>

----------------------------------------------------------------------------
(* Bounds of the model *)

\* at most this many Neuron instances are constructed in a run
MaxNeurons == 2

\* how many of the population labels of pop_items are offered
NumPopLabels == 2

\* at most this many Neuron instances where only constructions are run
MaxGids == 5

\* at most this many samples in the morphology that is transformed
MaxSamples == 2

\* the boundary's bounding box spans at most this many grid cells per axis
MaxBoxCells == 2

\* at most this many candidate origins in the bounding box
MaxCandidates == 4

\* scene.MaxCellDuplicates ranges over 1..MaxDuplicates
MaxDuplicates == 3

\* at most this many morphologies are loaded when morphologies are exported
MaxMorphologies == 2

\* at most this many basal dendrites in a morphology that is transformed
MaxDendrites == 1

\* a NURBS spline has at most this many control points
MaxKnotPoints == 6

\* the order of a NURBS spline is at most this
MaxKnotOrder == 6

\* a polyline has at most this many points
MaxPolylineLen == 4

\* the subsample factor is at most this
MaxSubsample == 4

\* a streamlines file holds at most this many streamlines
MaxFileLen == 3

\* max_num is at most this
MaxNum == 3

\* min_length is at most this
MaxMinLength == 3

----------------------------------------------------------------------------
(* ui_data.py: custom property names and object types *)

CUSTOM_PROPERTY_PREFIX == "NMV_"

mkprop(property_name) == CUSTOM_PROPERTY_PREFIX \o property_name

OBJECT_TYPE      == mkprop("object_type")
SWC_SAMPLES      == mkprop("swc_samples")
SWC_STRUCTURE_ID == mkprop("swc_structure_id")
CELL_LABEL       == mkprop("cell_label")
CELL_GID         == mkprop("cell_gid")
POP_LABEL        == mkprop("pop_label")
INCLUDE_EXPORT   == mkprop("include_export")
AX_PRE_GID       == mkprop("presynaptic_cell_GID")
AX_PRE_NAME      == mkprop("presynaptic_cell_name")
AX_POST_GIDS     == mkprop("postsynaptic_cell_GIDs")

\* every key an object is asked for: the reserved names, and the unprefixed
\* name SetAxonPostCell reads
PropKeys == {OBJECT_TYPE, SWC_SAMPLES, SWC_STRUCTURE_ID, CELL_LABEL, CELL_GID,
             POP_LABEL, INCLUDE_EXPORT, AX_PRE_GID, AX_PRE_NAME, AX_POST_GIDS,
             "postsynaptic_cell_GIDs"}

STREAMLINE      == "streamline"
NEURON_GEOMETRY == "neuron_geometry"
NEURON_PROXY    == "neuron_proxy"
BRAIN_STRUCTURE == "brain_structure"
ELECTRODE       == "electrode"

NEURON_TYPES == {NEURON_GEOMETRY, NEURON_PROXY}

SOMA  == 1
BASAL == 3

\* obj.get(key, default)
Get(obj, key, default) ==
    IF obj.props[key] = <<>> THEN default ELSE obj.props[key][1]

\* key in obj.keys()
Has(obj, key) == obj.props[key] # <<>>

\* obj[key] = value
SetProp(obj, key, value) == [obj EXCEPT !.props[key] = <<value>>]

get_nmv_type(obj) == Get(obj, OBJECT_TYPE, "None")

set_nmv_type(obj, nmv_type) == SetProp(obj, OBJECT_TYPE, nmv_type)

NoProps == [k \in PropKeys |-> <<>>]

\* a new Blender object of the given Blender type; matrix_world names its
\* world transform (0 is the identity)
NewObject(btype) ==
    [btype |-> btype, parent |-> 0, matrix_world |-> 0, props |-> NoProps]

ObjIds == 1..Len(objects)

----------------------------------------------------------------------------
(* skeleton/neuron.py *)

\* make_gid with the increment of the counter left out
make_gid_no_increment(counter) == [gid |-> counter, counter |-> counter]

make_gid(counter) == [gid |-> counter, counter |-> counter + 1]

\* sorted(S) for a set of integers
RECURSIVE SortedSeq(_)
SortedSeq(S) ==
    IF S = {} THEN <<>>
    ELSE LET m == CHOOSE x \in S : \A y \in S : x <= y
         IN <<m>> \o SortedSeq(S \ {m})

\* the elements of a sequence
Range(s) == {s[i] : i \in DOMAIN s}

\* bobj.children: the objects parented to object i, in scene order
Children(objs, i) == SortedSeq({j \in DOMAIN objs : objs[j].parent = i})

\* the while loop of Neuron.__init__ that gathers a parent object and all
\* its descendants: pop the last of the stack, keep it, push its children
RECURSIVE CollectGeometry(_, _, _)
CollectGeometry(objs, children, geometry) ==
    IF children = <<>> THEN geometry
    ELSE LET child == children[Len(children)]
             rest  == SubSeq(children, 1, Len(children) - 1)
         IN CollectGeometry(objs, rest \o Children(objs, child),
                            Append(geometry, child))

\* Neuron.get_geometry(swc_type), exclude_type = False
get_geometry(objs, geometry, swc_type) ==
    SelectSeq(geometry, LAMBDA i : Get(objs[i], SWC_STRUCTURE_ID, 0) = swc_type)

\* the samples SWCReader reads from a file: a soma-only morphology
ReadSamples(swc_file) == << <<1, SOMA, 0, 0, 0, 1, -1>> >>

\* SkeletonBuilder.draw_morphology_skeleton: the objects drawn for a
\* morphology, here its soma mesh tagged with the SWC structure id
DrawSkeleton(objs) ==
    Append(objs, SetProp(NewObject("MESH"), SWC_STRUCTURE_ID, SOMA))

\* scene_ops.duplicate_simple: a copy of an object with its custom properties
duplicate_simple(objs, i) == Append(objs, [objs[i] EXCEPT !.parent = 0])

\* Neuron.serialize_to_blend: the samples are stored on the soma object;
\* get_soma_geometry raises unless there is exactly one soma object
serialize_to_blend(w, geometry, swc_samples) ==
    LET somas == get_geometry(w.objects, geometry, SOMA)
    IN IF Len(somas) # 1
       THEN [w EXCEPT !.raised = "Exception"]
       ELSE [w EXCEPT !.objects[somas[1]] =
                          SetProp(@, SWC_SAMPLES, swc_samples)]

\* the name of an SWC file without directory and extension, with the GID
GidLabel(label_prefix, gid) == label_prefix \o ".GID-" \o ToString(gid)

\* Neuron.__init__ after the check of its arguments: the GID, the label, the
\* samples and the geometry of the new instance
NeuronBuild(w, label, swc_samples, swc_file, parent_geometry, draw_geometry) ==
    LET g == make_gid(w.gid_counter)
        lbl == IF label = ""
               THEN GidLabel(IF swc_file # "" THEN swc_file ELSE "neuron", g.gid)
               ELSE label
        given == swc_file # "" \/ swc_samples # <<>>
        read == IF swc_file # "" THEN ReadSamples(swc_file) ELSE swc_samples
        \* geometry drawn from the samples
        drawn == given /\ draw_geometry
        objs1 == IF drawn THEN DrawSkeleton(w.objects) ELSE w.objects
        geom1 == IF drawn THEN <<Len(objs1)>> ELSE <<>>
        \* geometry taken from the parent object
        stored == IF parent_geometry # 0
                  THEN objs1[parent_geometry].props[SWC_SAMPLES] ELSE <<>>
        samples == IF stored # <<>> THEN stored
                   ELSE IF given THEN <<read>> ELSE <<>>
        geom2 == IF parent_geometry # 0
                 THEN CollectGeometry(objs1, <<parent_geometry>>, <<>>)
                 ELSE geom1
        \* label, gid and type saved on each geometry
        objs2 == [i \in DOMAIN objs1 |->
                    IF i \in Range(geom2)
                    THEN SetProp(SetProp(SetProp(objs1[i],
                            CELL_LABEL, lbl), CELL_GID, g.gid),
                            OBJECT_TYPE, NEURON_GEOMETRY)
                    ELSE objs1[i]]
        neuron == [gid |-> g.gid, label |-> lbl, geometry |-> geom2,
                   swc_samples |-> samples]
        w2 == [w EXCEPT !.objects = objs2, !.gid_counter = g.counter,
                        !.constructed = Append(@, neuron)]
    IN IF geom2 = <<>> THEN w2
       ELSE IF samples = <<>> THEN [w2 EXCEPT !.raised = "AttributeError"]
       ELSE serialize_to_blend(w2, geom2, samples[1])

\* Neuron.__init__ with the GID drawn before the arguments are checked
NeuronInit_gid_first(w, label, swc_samples, swc_file, parent_geometry, draw_geometry) ==
    IF swc_file # "" /\ swc_samples # <<>>
    THEN [w EXCEPT !.raised = "ValueError",
                   !.gid_counter = make_gid(@).counter]
    ELSE NeuronBuild(w, label, swc_samples, swc_file, parent_geometry,
                     draw_geometry)

\* Neuron.__init__ on the world w = [objects, gid_counter, constructed,
\* raised]; "" is None for label and swc_file, <<>> for swc_samples and 0 for
\* parent_geometry.  The instance built is the last of constructed.
NeuronInit(w, label, swc_samples, swc_file, parent_geometry, draw_geometry) ==
    IF swc_file # "" /\ swc_samples # <<>>
    THEN [w EXCEPT !.raised = "ValueError"]
    ELSE NeuronBuild(w, label, swc_samples, swc_file, parent_geometry,
                     draw_geometry)

----------------------------------------------------------------------------
(* circuit_data.py *)

\* add_neuron: register the neuron and link its geometry to the group
add_neuron(w, neuron) ==
    [w EXCEPT !.neurons = [g \in DOMAIN w.neurons \cup {neuron.gid} |->
                              IF g = neuron.gid THEN neuron ELSE w.neurons[g]],
              !.nm_group = @ \cup Range(neuron.geometry)]

\* the last element of a non-empty sequence
Last(s) == s[Len(s)]

import_neuron_from_file(w, swc_file) ==
    LET w1 == NeuronInit(w, "", <<>>, swc_file, 0, TRUE)
    IN IF w1.raised # "" THEN w1 ELSE add_neuron(w1, Last(w1.constructed))

\* restore_neurons_from_blend_data: the loop over bpy.data.objects from
\* object i on
RECURSIVE RestoreFrom(_, _)
RestoreFrom(w, i) ==
    IF i > Len(w.objects) \/ w.raised # "" THEN w
    ELSE LET bobj == w.objects[i]
             nmv_type == Get(bobj, OBJECT_TYPE, "None")
             swc_type == Get(bobj, SWC_STRUCTURE_ID, 0)
         IN IF nmv_type = NEURON_GEOMETRY /\ swc_type = SOMA
            THEN LET w1 == NeuronInit(w, "", <<>>, "", i, FALSE)
                 IN IF w1.raised # "" THEN w1
                    ELSE RestoreFrom(add_neuron(w1, Last(w1.constructed)), i + 1)
            ELSE RestoreFrom(w, i + 1)

restore_neurons_from_blend_data(w) == RestoreFrom(w, 1)

\* get_neurons_from_blend_objects: the registered neurons whose GID is
\* carried by a selected object
get_neurons_from_blend_objects(objs, regs, sel) ==
    LET gids == {objs[i].props[CELL_GID][1] :
                    i \in {j \in sel : Has(objs[j], CELL_GID)}}
    IN {regs[gid] : gid \in gids \cap DOMAIN regs}

\* get_geometries_of_type(nmv_type, selected, selector=None), called with
\* the positional arguments args: nmv_type and selected are required, so a
\* call that passes fewer raises TypeError.  selector is "" for None or
\* the name of a property whose truth selects the object.
get_geometries_of_type(objs, args, selector) ==
    IF Len(args) < 2 THEN [raised |-> "TypeError", value |-> <<>>]
    ELSE [raised |-> "",
          value |-> SortedSeq({i \in args[2] :
                      /\ get_nmv_type(objs[i]) \in args[1]
                      /\ (selector = "" \/ Get(objs[i], selector, FALSE))})]

----------------------------------------------------------------------------
(* skeleton/neuron.py: Neuron.duplicate *)

\* the copies of the neurite objects, each parented to the soma copy
RECURSIVE CopyNeurites(_, _, _)
CopyNeurites(objs, neurites, soma_copy) ==
    IF neurites = <<>> THEN objs
    ELSE CopyNeurites(
            Append(objs, [objs[neurites[1]] EXCEPT !.parent = soma_copy]),
            Tail(neurites), soma_copy)

duplicate(w, neuron, label) ==
    LET somas == get_geometry(w.objects, neuron.geometry, SOMA)
        neurite_geometry ==
            SelectSeq(neuron.geometry,
                      LAMBDA i : Get(w.objects[i], SWC_STRUCTURE_ID, 0) # SOMA)
    IN IF Len(somas) # 1 THEN [w EXCEPT !.raised = "Exception"]
       ELSE LET objs1 == duplicate_simple(w.objects, somas[1])
                soma_copy == Len(objs1)
                objs2 == CopyNeurites(objs1, neurite_geometry, soma_copy)
            IN NeuronInit([w EXCEPT !.objects = objs2],
                          label, <<>>, "", soma_copy, TRUE)

----------------------------------------------------------------------------
(* tracks_panel.py: ToggleAxonExport *)

\* ToggleAxonExport.execute with a flag that was never set read as True
ToggleAxonExport_execute_default_true(objs, sel, toggle, export) ==
    LET crv_objs == {i \in sel : objs[i].btype = "CURVE"}
    IN IF crv_objs = {} THEN objs
       ELSE [i \in DOMAIN objs |->
               IF i \in crv_objs
               THEN LET should_export ==
                          IF toggle THEN ~ Get(objs[i], INCLUDE_EXPORT, TRUE)
                          ELSE export
                    IN SetProp(objs[i], INCLUDE_EXPORT, should_export)
               ELSE objs[i]]

\* ToggleAxonExport.execute on the selection sel: the objects afterwards
ToggleAxonExport_execute(objs, sel, toggle, export) ==
    LET crv_objs == {i \in sel : objs[i].btype = "CURVE"}
    IN IF crv_objs = {} THEN objs
       ELSE [i \in DOMAIN objs |->
               IF i \in crv_objs
               THEN LET should_export ==
                          IF toggle THEN ~ Get(objs[i], INCLUDE_EXPORT, FALSE)
                          ELSE export
                    IN SetProp(objs[i], INCLUDE_EXPORT, should_export)
               ELSE objs[i]]

----------------------------------------------------------------------------
(* circuits_panel.py *)

\* the labels of pop_items, in order
pop_items == <<"STN", "GPE", "GPi", "CTX">>

PopLabels == {pop_items[i] : i \in 1..NumPopLabels}

\* the body of the loop of AssignPopulation.execute for one selected object
AssignOne(obj, new_label) ==
    LET nmv_type == get_nmv_type(obj)
    IN IF nmv_type = "None"
       THEN SetProp(set_nmv_type(obj, NEURON_PROXY), POP_LABEL, new_label)
       ELSE IF nmv_type # NEURON_GEOMETRY
       THEN obj
       ELSE SetProp(obj, POP_LABEL, new_label)

\* the loop of SetAxonPostCell.execute: the target GIDs of each axon
SetPostGids(objs, axon_objs, post_cell_gids) ==
    [i \in DOMAIN objs |->
        IF i \in Range(axon_objs)
        THEN LET old_post_gids ==
                    Range(Get(objs[i], "postsynaptic_cell_GIDs", <<>>))
             IN SetProp(objs[i], AX_POST_GIDS,
                        SortedSeq(old_post_gids \cup post_cell_gids))
        ELSE objs[i]]

\* the loop of SetAxonPreCell.execute: GID and label of the source cell
SetPreCell(objs, selected_axons, neuron) ==
    [i \in DOMAIN objs |->
        IF i \in Range(selected_axons)
        THEN SetProp(SetProp(objs[i], AX_PRE_GID, neuron.gid),
                     AX_PRE_NAME, neuron.label)
        ELSE objs[i]]

\* the entries ExportCircuit.execute builds from the neurons and the axons
\* marked for export
CircuitConfig(objs, regs, axons) ==
    [cells |->
        [k \in 1..Cardinality(DOMAIN regs) |->
            LET gid == SortedSeq(DOMAIN regs)[k]
                neuron == regs[gid]
                somas == get_geometry(objs, neuron.geometry, SOMA)
            IN [gid |-> neuron.gid, morphology |-> neuron.label,
                transform |-> objs[somas[1]].matrix_world]],
     connections |->
        [k \in 1..Len(axons) |->
            [axon |-> axons[k],
             pre_gid |-> objs[axons[k]].props[AX_PRE_GID],
             post_gids |-> Get(objs[axons[k]], AX_POST_GIDS, <<>>)]]]

----------------------------------------------------------------------------
(* The scene and the operators run on it *)

\* the SWC files offered to ImportMorphology
SwcFiles == {"cell"}

\* the labels passed to Neuron.duplicate
DupLabels == {"cell.001"}

\* the scene before any morphology is imported: two imported streamline
\* curves and one mesh the add-on has not tagged
InitObjects ==
    << set_nmv_type(NewObject("CURVE"), STREAMLINE),
       set_nmv_type(NewObject("CURVE"), STREAMLINE),
       NewObject("MESH") >>

InitCircuit ==
    /\ objects = InitObjects
    /\ selected = {}
    /\ neurons = [g \in {} |-> g]
    /\ nm_group = {}
    /\ gid_counter = 0
    /\ constructed = <<>>
    /\ circuit_file = <<>>
    /\ DefinedPopLabels = pop_items[1]
    /\ report = [op |-> "register", status |-> "FINISHED"]

World ==
    [objects |-> objects, neurons |-> neurons, nm_group |-> nm_group,
     gid_counter |-> gid_counter, constructed |-> constructed, raised |-> ""]

\* the world after a call, and how the call ended
Commit(w, op) ==
    /\ objects' = w.objects
    /\ neurons' = w.neurons
    /\ nm_group' = w.nm_group
    /\ gid_counter' = w.gid_counter
    /\ constructed' = w.constructed
    /\ report' = [op |-> op,
                  status |-> IF w.raised = "" THEN "FINISHED" ELSE w.raised]

\* the user changes the selection in the 3D view
SelectObjects ==
    /\ \E s \in SUBSET ObjIds : selected' = s
    /\ report' = [op |-> "select", status |-> "FINISHED"]
    /\ UNCHANGED <<objects, neurons, nm_group, gid_counter, constructed,
                   circuit_file, DefinedPopLabels, pureVars>>

ImportUpTo(max) ==
    /\ Len(constructed) < max
    /\ \E swc_file \in SwcFiles :
          Commit(import_neuron_from_file(World, swc_file), "import_neuron")
    /\ UNCHANGED <<selected, circuit_file, DefinedPopLabels, pureVars>>

DuplicateUpTo(max) ==
    /\ Len(constructed) < max
    /\ \E k \in DOMAIN constructed : \E label \in DupLabels :
          Commit(duplicate(World, constructed[k], label), "duplicate")
    /\ UNCHANGED <<selected, circuit_file, DefinedPopLabels, pureVars>>

\* the soma objects restore_neurons_from_blend_data builds a Neuron for
SomaObjects(objs) ==
    {i \in DOMAIN objs : /\ Get(objs[i], OBJECT_TYPE, "None") = NEURON_GEOMETRY
                         /\ Get(objs[i], SWC_STRUCTURE_ID, 0) = SOMA}

RestoreUpTo(max) ==
    /\ Len(constructed) + Cardinality(SomaObjects(objects)) <= max
    /\ Commit(restore_neurons_from_blend_data(World), "load_post")
    /\ UNCHANGED <<selected, circuit_file, DefinedPopLabels, pureVars>>

\* the user picks a population in the panel's drop-down
ChoosePopulation ==
    /\ \E l \in PopLabels : DefinedPopLabels' = l
    /\ report' = [op |-> "choose_population", status |-> "FINISHED"]
    /\ UNCHANGED <<objects, selected, neurons, nm_group, gid_counter,
                   constructed, circuit_file, pureVars>>

AssignPopulation ==
    /\ LET new_label == DefinedPopLabels
       IN objects' = [i \in DOMAIN objects |->
                        IF i \in selected THEN AssignOne(objects[i], new_label)
                        ELSE objects[i]]
    /\ report' = [op |-> "AssignPopulation", status |-> "FINISHED"]
    /\ UNCHANGED <<selected, neurons, nm_group, gid_counter, constructed,
                   circuit_file, DefinedPopLabels, pureVars>>

SetAxonPreCell ==
    LET selected_neurons ==
            get_neurons_from_blend_objects(objects, neurons, selected)
        \* get_geometries_of_type(NMV_TYPE.STREAMLINE): one argument
        call == get_geometries_of_type(objects, << {STREAMLINE} >>, "")
        selected_axons == call.value
    IN /\ IF Cardinality(selected_neurons) # 1
          THEN /\ report' = [op |-> "SetAxonPreCell", status |-> "ERROR"]
               /\ UNCHANGED objects
          ELSE IF call.raised # ""
          THEN /\ report' = [op |-> "SetAxonPreCell", status |-> call.raised]
               /\ UNCHANGED objects
          ELSE IF Len(selected_axons) = 0
          THEN /\ report' = [op |-> "SetAxonPreCell", status |-> "ERROR"]
               /\ UNCHANGED objects
          ELSE /\ objects' = ToggleAxonExport_execute(
                      SetPreCell(objects, selected_axons,
                                 CHOOSE n \in selected_neurons : TRUE),
                      selected, FALSE, TRUE)
               /\ report' = [op |-> "SetAxonPreCell", status |-> "FINISHED"]
       /\ UNCHANGED <<selected, neurons, nm_group, gid_counter, constructed,
                      circuit_file, DefinedPopLabels, pureVars>>

SetAxonPostCell ==
    LET neuron_objs ==
            get_geometries_of_type(objects,
                << {NEURON_GEOMETRY, NEURON_PROXY}, selected >>, "").value
        post_cell_gids ==
            {objects[i].props[CELL_GID][1] :
                i \in {j \in Range(neuron_objs) : Has(objects[j], CELL_GID)}}
        axon_objs ==
            get_geometries_of_type(objects,
                << {STREAMLINE}, selected >>, "").value
    IN /\ IF post_cell_gids = {} \/ Len(axon_objs) = 0
          THEN /\ report' = [op |-> "SetAxonPostCell", status |-> "ERROR"]
               /\ UNCHANGED objects
          ELSE /\ objects' = ToggleAxonExport_execute(
                      SetPostGids(objects, axon_objs, post_cell_gids),
                      selected, FALSE, TRUE)
               /\ report' = [op |-> "SetAxonPostCell", status |-> "FINISHED"]
       /\ UNCHANGED <<selected, neurons, nm_group, gid_counter, constructed,
                      circuit_file, DefinedPopLabels, pureVars>>

ExportCircuit ==
    LET \* get_geometries_of_type(NMV_TYPE.STREAMLINE, selector=INCLUDE_EXPORT)
        call == get_geometries_of_type(objects, << {STREAMLINE} >>,
                                       INCLUDE_EXPORT)
    IN /\ IF call.raised # ""
          THEN /\ report' = [op |-> "ExportCircuit", status |-> call.raised]
               /\ UNCHANGED circuit_file
          ELSE /\ circuit_file' =
                      << CircuitConfig(objects, neurons, call.value) >>
               /\ report' = [op |-> "ExportCircuit", status |-> "FINISHED"]
       /\ UNCHANGED <<objects, selected, neurons, nm_group, gid_counter,
                      constructed, DefinedPopLabels, pureVars>>

ToggleAxonExport ==
    /\ \E toggle \in BOOLEAN : \E export \in BOOLEAN :
          objects' = ToggleAxonExport_execute(objects, selected, toggle, export)
    /\ report' = [op |-> "ToggleAxonExport",
                  status |-> IF \E i \in selected : objects[i].btype = "CURVE"
                             THEN "FINISHED" ELSE "ERROR"]
    /\ UNCHANGED <<selected, neurons, nm_group, gid_counter, constructed,
                   circuit_file, DefinedPopLabels, pureVars>>

----------------------------------------------------------------------------
(* geometry/object/curve.py: polyline_to_nurbs *)

\* tck_pts[::subsample]: the points at the 0-based indices 0, s, 2s, ...
Slice(pts, s) ==
    [k \in 1..((Len(pts) + s - 1) \div s) |-> pts[(k - 1) * s + 1]]

\* the control points polyline_to_nurbs gives the NURBS spline
polyline_to_nurbs(pts, s) ==
    LET sliced == Slice(pts, s)
    IN IF Len(pts) % s # 0
       THEN Append(sliced, pts[Len(pts)])
       ELSE sliced

\* the points a polyline is drawn from
PointSet == {<<0, 0, 0>>, <<1, 0, 0>>, <<1, 1, 0>>, <<2, 1, 0>>}

\* the polylines: up to MaxPolylineLen distinct points
Polylines ==
    UNION {{p \in [1..n -> PointSet] :
               \A i \in 1..n : \A j \in 1..n : i # j => p[i] # p[j]}
           : n \in 1..MaxPolylineLen}

IdleNurbs ==
    /\ tck_pts = <<>>
    /\ subsample = 1
    /\ ctl_pts = <<>>

InitNurbs ==
    /\ tck_pts \in Polylines
    /\ subsample \in 1..MaxSubsample
    /\ ctl_pts = <<>>

\* PolylineToSpline.execute converts the selected curve
PolylineToSpline ==
    /\ tck_pts # <<>>
    /\ ctl_pts = <<>>
    /\ ctl_pts' = polyline_to_nurbs(tck_pts, subsample)
    /\ UNCHANGED <<tck_pts, subsample, circuitVars, toggleVars, morphVars,
                   knotVars, loadVars, samplesVars,
                   dupVars, exportVars>>

----------------------------------------------------------------------------
(* tracks_panel.py: load_streamlines *)

Abs(x) == IF x < 0 THEN -x ELSE x

\* np.sum(np.linalg.norm(np.diff(streamline, axis=0), axis=1)) for a
\* streamline whose points lie on the x axis: the sum of the segment lengths
RECURSIVE PolylineLength(_)
PolylineLength(streamline) ==
    IF Len(streamline) < 2 THEN 0
    ELSE Abs(streamline[2] - streamline[1]) + PolylineLength(Tail(streamline))

\* the selection loop with the test of max_num off by one
RECURSIVE LoadLoop_late_break(_, _, _, _, _)
LoadLoop_late_break(streamlines, i, filtered, maxn, minl) ==
    IF i > Len(streamlines) THEN filtered
    ELSE IF Len(filtered) > maxn THEN filtered
    ELSE LET tck_len == IF minl > 0 THEN PolylineLength(streamlines[i])
                        ELSE 1
         IN LoadLoop_late_break(streamlines, i + 1,
                     IF tck_len >= minl
                     THEN Append(filtered, streamlines[i]) ELSE filtered,
                     maxn, minl)

\* the selection loop of load_streamlines from streamline i on
RECURSIVE LoadLoop(_, _, _, _, _)
LoadLoop(streamlines, i, filtered, maxn, minl) ==
    IF i > Len(streamlines) THEN filtered
    ELSE IF Len(filtered) >= maxn THEN filtered
    ELSE LET tck_len == IF minl > 0 THEN PolylineLength(streamlines[i])
                        ELSE 1
         IN LoadLoop(streamlines, i + 1,
                     IF tck_len >= minl
                     THEN Append(filtered, streamlines[i]) ELSE filtered,
                     maxn, minl)

load_streamlines(streamlines, maxn, minl) ==
    LoadLoop(streamlines, 1, <<>>, maxn, minl)

\* the streamlines a file may hold, as x coordinates of their points
Tracks == {<<0>>, <<0, 1>>, <<2, 0>>, <<0, 1, 3>>}

StreamlineFiles == UNION {[1..n -> Tracks] : n \in 0..MaxFileLen}

IdleLoad ==
    /\ file_streamlines = <<>>
    /\ max_num = 0
    /\ min_length = 0
    /\ streamlines_filtered = <<>>

InitLoad ==
    /\ file_streamlines \in StreamlineFiles
    /\ max_num \in 0..MaxNum
    /\ min_length \in (-1)..MaxMinLength
    /\ streamlines_filtered = <<>>

\* ImportStreamlines.execute loads the file
LoadStreamlines ==
    /\ streamlines_filtered = <<>>
    /\ streamlines_filtered' =
          << load_streamlines(file_streamlines, max_num, min_length) >>
    /\ UNCHANGED <<file_streamlines, max_num, min_length, circuitVars, toggleVars, morphVars,
                   knotVars,
                   nurbsVars, samplesVars, dupVars, exportVars>>

----------------------------------------------------------------------------
(* skeleton/neuron.py: Neuron.get_transformed_samples *)

\* the dot product of two vectors of the same length
RECURSIVE Dot(_, _)
Dot(u, v) ==
    IF Len(u) = 0 THEN 0 ELSE u[1] * v[1] + Dot(Tail(u), Tail(v))

\* np.dot(coord_matrix, xform_matrix.T): row r times the rows of xform
DotTransposed(coord_matrix, xform_matrix) ==
    [r \in DOMAIN coord_matrix |->
        [c \in 1..4 |-> Dot(coord_matrix[r], xform_matrix[c])]]

\* Columns of a sample are 1-based here: id, type, x, y, z, radius, parent.
\* coord_matrix is a view on columns 2:6 of sample_matrix, so the write to
\* its column 3 lands in the radius column of sample_matrix.
get_transformed_samples(samples, xform) ==
    LET sample_matrix == samples
        radius_set == [r \in DOMAIN sample_matrix |->
                          [sample_matrix[r] EXCEPT ![6] = 1]]
        coord_matrix == [r \in DOMAIN radius_set |->
                            SubSeq(radius_set[r], 3, 6)]
        coords_transformed == DotTransposed(coord_matrix, xform)
    IN [r \in DOMAIN radius_set |->
           [radius_set[r] EXCEPT ![3] = coords_transformed[r][1],
                                 ![4] = coords_transformed[r][2],
                                 ![5] = coords_transformed[r][3]]]

\* the samples a morphology is made of: id, type, x, y, z, radius, parent
SampleRows ==
    {<<1, SOMA, 0, 0, 0, 1, -1>>, <<1, SOMA, 1, 2, 0, 3, -1>>,
     <<2, BASAL, 1, 0, 0, 1, 1>>, <<2, BASAL, 0, 2, 1, 2, 1>>}

SampleLists == UNION {[1..n -> SampleRows] : n \in 1..MaxSamples}

\* the transforms of a soma geometry: identity, a translation, a scaling
\* and a quarter turn about the z axis followed by a translation
Transforms ==
    {<< <<1, 0, 0, 0>>, <<0, 1, 0, 0>>, <<0, 0, 1, 0>>, <<0, 0, 0, 1>> >>,
     << <<1, 0, 0, 1>>, <<0, 1, 0, 2>>, <<0, 0, 1, 3>>, <<0, 0, 0, 1>> >>,
     << <<2, 0, 0, 0>>, <<0, 2, 0, 0>>, <<0, 0, 2, 0>>, <<0, 0, 0, 1>> >>,
     << <<0, -1, 0, 1>>, <<1, 0, 0, 0>>, <<0, 0, 1, 0>>, <<0, 0, 0, 1>> >>}

IdleSamples ==
    /\ self_swc_samples = <<>>
    /\ self_matrix_world = <<>>
    /\ transformed_samples = <<>>

InitSamples ==
    /\ self_swc_samples \in SampleLists
    /\ self_matrix_world \in Transforms
    /\ transformed_samples = <<>>

\* a caller asks the neuron for its transformed samples
GetTransformedSamples ==
    /\ self_swc_samples # <<>>
    /\ transformed_samples = <<>>
    /\ transformed_samples' =
          << get_transformed_samples(self_swc_samples, self_matrix_world) >>
    /\ UNCHANGED <<self_swc_samples, self_matrix_world, circuitVars, toggleVars, morphVars,
                   knotVars, nurbsVars,
                   loadVars, dupVars, exportVars>>

----------------------------------------------------------------------------
(* cellpos_panel.py and dbs_panel.py: make_duplicate_origins *)

\* default of scene.DuplicationDensity, in cells per cubic millimetre
DuplicationDensity == 1000

\* density ** (1./3.)
CubeRoot(n) == CHOOSE r \in 0..n : r * r * r = n

\* np.ceil(a / b) for naturals a and b > 0
CeilDiv(a, b) == (a + b - 1) \div b

\* np.linspace(lo, hi, num=n, endpoint=False)
Linspace(lo, hi, n) == [k \in 1..n |-> lo + ((k - 1) * (hi - lo)) \div n]

\* the rows of np.array([co.ravel() for co in np.meshgrid(xs, ys, zs)]).T:
\* meshgrid indexes 'xy', so y varies slowest, then x, then z
Meshgrid(xs, ys, zs) ==
    [n \in 1..(Len(xs) * Len(ys) * Len(zs)) |->
        << xs[(((n - 1) \div Len(zs)) % Len(xs)) + 1],
           ys[((n - 1) \div (Len(xs) * Len(zs))) + 1],
           zs[((n - 1) % Len(zs)) + 1] >>]

\* ncell along one axis of the grid: cell_per_um = 1e-3 * density ** (1./3.)
GridCells(extent) == CeilDiv(CubeRoot(DuplicationDensity) * extent, 1000)

\* the grid of origins in a bounding box whose least corner is the origin
GridOrigins(dims) ==
    Meshgrid(Linspace(0, dims[1], GridCells(dims[1])),
             Linspace(0, dims[2], GridCells(dims[2])),
             Linspace(0, dims[3], GridCells(dims[3])))

\* ncell of the random layout: ceil(density * bbox_volume * 1e-9)
RandomCells(dims) ==
    CeilDiv(DuplicationDensity * ((dims[1] * dims[2] * dims[3]) \div 1000),
            1000000)

\* the squared np.linalg.norm(a - b)
SqDist(a, b) ==
    (a[1] - b[1]) * (a[1] - b[1]) + (a[2] - b[2]) * (a[2] - b[2])
        + (a[3] - b[3]) * (a[3] - b[3])

\* the results np.argsort may give for dists: argsort is not stable, equal
\* distances come in any order
ArgSorts(dists) ==
    {p \in [DOMAIN dists -> DOMAIN dists] :
        /\ \A i \in DOMAIN dists : \A j \in DOMAIN dists :
              i # j => p[i] # p[j]
        /\ \A i \in DOMAIN dists : \A j \in DOMAIN dists :
              i < j => dists[p[i]] <= dists[p[j]]}

\* origins[inside_mask, :]
InsideOnly(origins, inside) == SelectSeq(origins, LAMBDA pt : pt \in inside)

\* origins[sorted_idx[:max_duplicates], :]
TakeSorted(origins, sorted_idx, maxd) ==
    [k \in 1..maxd |-> origins[sorted_idx[k]]]

\* the candidate origins cellpos_panel generates before pruning
Candidates(method, dims, rnd) ==
    IF method = "GRID" THEN GridOrigins(dims) ELSE rnd

\* the distances np.argsort is given
Dists(origins, src) == [k \in DOMAIN origins |-> SqDist(origins[k], src)]

\* cellpos_panel.DuplicateMorphology.make_duplicate_origins, with the
\* permutation np.argsort returned
make_duplicate_origins(method, dims, inside, rnd, src, maxd, sorted_idx) ==
    IF method \notin {"GRID", "RANDOM"}
    THEN [panel |-> "cellpos", status |-> "ValueError", value |-> <<>>]
    ELSE
    LET origins_all == Candidates(method, dims, rnd)
        origins == InsideOnly(origins_all, inside)
    IN IF Len(origins_all) = 0
       THEN [panel |-> "cellpos", status |-> "returned", value |-> <<>>]
       ELSE [panel |-> "cellpos", status |-> "returned",
             value |-> IF Len(origins) > maxd
                       THEN TakeSorted(origins, sorted_idx, maxd)
                       ELSE origins]

\* dbs_panel.DuplicateMorphology.make_duplicate_origins: the RANDOM branch
\* leaves origins unbound, a non-empty grid fails at "for i, pt in origins"
\* and an empty one at origins[inside_mask, :]
make_duplicate_origins_dbs(method, dims) ==
    IF method = "GRID"
    THEN IF \A i \in 1..3 : dims[i] > 0
         THEN [panel |-> "dbs", status |-> "ValueError", value |-> <<>>]
         ELSE [panel |-> "dbs", status |-> "IndexError", value |-> <<>>]
    ELSE IF method = "RANDOM"
    THEN [panel |-> "dbs", status |-> "UnboundLocalError", value |-> <<>>]
    ELSE [panel |-> "dbs", status |-> "ValueError", value |-> <<>>]

\* the bounding boxes: extents in micrometres, multiples of the grid step
BoxDims ==
    {d \in [1..3 -> {100 * c : c \in 0..MaxBoxCells}] :
        (d[1] \div 100) * (d[2] \div 100) * (d[3] \div 100) <= MaxCandidates}

\* the points of a bounding box that the boundary volume may contain
BoxPoints(dims) == {GridOrigins(dims)[k] : k \in DOMAIN GridOrigins(dims)}

\* the locations of the source object
SourceLocations == {<<0, 0, 0>>, <<100, 0, 0>>, <<50, 100, 100>>}

IdleDup ==
    /\ layout_method = "GRID"
    /\ bbox_dims = <<0, 0, 0>>
    /\ inside_pts = {}
    /\ random_pts = <<>>
    /\ src_loc = <<0, 0, 0>>
    /\ max_duplicates = 1
    /\ dup_origins = [panel |-> "", status |-> "done", value |-> <<>>]

InitDup ==
    /\ layout_method \in {"GRID", "RANDOM"}
    /\ bbox_dims \in BoxDims
    /\ inside_pts \in SUBSET BoxPoints(bbox_dims)
    /\ random_pts \in IF layout_method = "RANDOM"
                      THEN [1..RandomCells(bbox_dims) -> BoxPoints(bbox_dims)]
                      ELSE {<<>>}
    /\ src_loc \in SourceLocations
    /\ max_duplicates \in 1..MaxDuplicates
    /\ dup_origins = [panel |-> "", status |-> "idle", value |-> <<>>]

\* a call of make_duplicate_origins of cellpos_panel
MakeDuplicateOrigins ==
    /\ dup_origins.status = "idle"
    /\ LET origins == InsideOnly(
                         Candidates(layout_method, bbox_dims, random_pts),
                         inside_pts)
       IN \E sorted_idx \in ArgSorts(Dists(origins, src_loc)) :
             dup_origins' = make_duplicate_origins(layout_method, bbox_dims,
                               inside_pts, random_pts, src_loc,
                               max_duplicates, sorted_idx)
    /\ UNCHANGED <<layout_method, bbox_dims, inside_pts, random_pts, src_loc,
                   max_duplicates, circuitVars, toggleVars, morphVars,
                   knotVars, nurbsVars, loadVars,
                   samplesVars, exportVars>>

\* a call of make_duplicate_origins of dbs_panel
MakeDuplicateOriginsDbs ==
    /\ dup_origins.status = "idle"
    /\ dup_origins' = make_duplicate_origins_dbs(layout_method, bbox_dims)
    /\ UNCHANGED <<layout_method, bbox_dims, inside_pts, random_pts, src_loc,
                   max_duplicates, circuitVars, toggleVars, morphVars,
                   knotVars, nurbsVars, loadVars,
                   samplesVars, exportVars>>

----------------------------------------------------------------------------
(* cellpos_panel.py: ExportMorphologies *)

\* the names bound at module level in cellpos_panel.py
CellposPanelNames ==
    {"copy", "os", "re", "bpy", "BoolProperty", "FloatProperty",
     "IntProperty", "StringProperty", "EnumProperty", "mathutils", "np",
     "nmv", "neuromorphovis", "nmvif", "circuit_data", "morphology_editor",
     "is_skeleton_edited", "in_edit_mode", "DEBUG", "DEBUG_LOG",
     "DbsPositioningPanel", "ImportMorphology", "DuplicateMorphology",
     "SetDuplicationBoundary", "ExportMorphologies", "_reg_classes",
     "register_panel", "unregister_panel"}

\* A geometry object is <<label of its morphology, kind>>; its name holds
\* 'soma' when the kind is "soma".  <<>> is None.
IsSoma(obj) == obj # <<>> /\ obj[2] = "soma"

\* dbs_panel.get_morphology_from_object: the label of the first morphology
\* whose geometry list holds the object, "" for None
get_morphology_from_object(morphs, skeletons, blender_object) ==
    LET owners == {k \in DOMAIN morphs :
                      \E n \in DOMAIN skeletons[morphs[k]] :
                          skeletons[morphs[k]][n] = blender_object}
    IN IF owners = {} THEN ""
       ELSE morphs[CHOOSE k \in owners : \A j \in owners : k <= j]

\* the first object of a geometry list that is a soma, <<>> if there is none
SomaOf(geometry_list) ==
    LET somas == {n \in DOMAIN geometry_list : IsSoma(geometry_list[n])}
    IN IF somas = {} THEN <<>>
       ELSE geometry_list[CHOOSE n \in somas : \A m \in somas : n <= m]

\* the export loop from morphology i on: written is what has been written
RECURSIVE ExportLoop(_, _, _, _)
ExportLoop(morphs, skeletons, i, written) ==
    IF i > Len(morphs)
    THEN [status |-> "INFO", exported |-> written]
    ELSE IF SomaOf(skeletons[morphs[i]]) = <<>>
    THEN [status |-> "ERROR", exported |-> written]
    ELSE ExportLoop(morphs, skeletons, i + 1, Append(written, morphs[i]))

\* ExportMorphologies.execute
ExportMorphologies_execute(morphs, skeletons, active, outdir) ==
    IF outdir = "None"
    THEN [status |-> "ERROR", exported |-> <<>>]
    ELSE IF outdir = "missing"
    THEN [status |-> "ERROR", exported |-> <<>>]
    ELSE IF "get_morphology_from_object" \notin CellposPanelNames
    THEN [status |-> "NameError", exported |-> <<>>]
    ELSE
    LET selected_morphology ==
            get_morphology_from_object(morphs, skeletons, active)
        exported_morphologies ==
            IF selected_morphology # "" THEN <<selected_morphology>>
            ELSE morphs
    IN ExportLoop(morphs, skeletons, 1, <<>>)

\* the labels of the morphologies that may be loaded
MorphologyLabels == {"cell", "cell.001"}

\* the lists of loaded morphologies: labels are unique
MorphologyLists ==
    UNION {{m \in [1..n -> MorphologyLabels] :
               \A i \in 1..n : \A j \in 1..n : i # j => m[i] # m[j]}
           : n \in 0..MaxMorphologies}

\* the geometry lists a sketched morphology may have
GeometryLists(label) ==
    {<< <<label, "soma">>, <<label, "basal">> >>,
     << <<label, "basal">>, <<label, "soma">> >>,
     << <<label, "soma">> >>,
     << <<label, "basal">> >>}

\* the objects of a scene: the geometry of the morphologies and a lamp
SceneObjects(morphs, skeletons) ==
    {<<>>, <<"", "lamp">>}
        \cup UNION {{skeletons[morphs[k]][n] :
                        n \in DOMAIN skeletons[morphs[k]]}
                    : k \in DOMAIN morphs}

IdleExport ==
    /\ ui_morphologies = <<>>
    /\ ui_reconstructed_skeletons = [l \in {} |-> <<>>]
    /\ active_object = <<>>
    /\ output_directory = "None"
    /\ exported_files = <<>>
    /\ export_report = "done"

InitExport ==
    /\ ui_morphologies \in MorphologyLists
    /\ ui_reconstructed_skeletons \in
          {f \in [Range(ui_morphologies) ->
                     UNION {GeometryLists(l) : l \in MorphologyLabels}] :
              \A l \in Range(ui_morphologies) : f[l] \in GeometryLists(l)}
    /\ active_object \in
          SceneObjects(ui_morphologies, ui_reconstructed_skeletons)
    /\ output_directory \in {"None", "missing", "ok"}
    /\ exported_files = <<>>
    /\ export_report = "idle"

\* the operator export.morphologies runs
ExportMorphologies ==
    /\ export_report = "idle"
    /\ LET done == ExportMorphologies_execute(ui_morphologies,
                       ui_reconstructed_skeletons, active_object,
                       output_directory)
       IN /\ exported_files' = done.exported
          /\ export_report' = done.status
    /\ UNCHANGED <<ui_morphologies, ui_reconstructed_skeletons,
                   active_object, output_directory, circuitVars, toggleVars, morphVars,
                   knotVars, nurbsVars,
                   loadVars, samplesVars, dupVars>>

----------------------------------------------------------------------------
(* tracks_panel.py: runs of ToggleAxonExport with their arguments *)

\* the export flag of an object: curve.get(_PROP_AX_EXPORT, False)
ExportFlag(obj) == Get(obj, INCLUDE_EXPORT, FALSE)

\* the log with one more run; the two most recent runs are kept
Logged(log, run) ==
    IF Len(log) < 2 THEN Append(log, run) ELSE <<log[2], run>>

IdleToggle == toggle_log = <<>>

\* bpy.ops.axon.toggle_export(toggle=..., export=...) on the selection
InvokeToggleAxonExport ==
    \E toggle \in BOOLEAN : \E export \in BOOLEAN :
        /\ objects' = ToggleAxonExport_execute(objects, selected, toggle, export)
        /\ report' = [op |-> "ToggleAxonExport",
                      status |-> IF \E i \in selected :
                                       objects[i].btype = "CURVE"
                                 THEN "FINISHED" ELSE "ERROR"]
        /\ toggle_log' = Logged(toggle_log,
                                [toggle |-> toggle, export |-> export,
                                 sel |-> selected, before |-> objects,
                                 status |-> report'.status])
        /\ UNCHANGED <<selected, neurons, nm_group, gid_counter, constructed,
                       circuit_file, DefinedPopLabels, nurbsVars, loadVars,
                       samplesVars, dupVars, exportVars, morphVars, knotVars>>

----------------------------------------------------------------------------
(* skeleton/structure/morphology.py: Morphology.transform_sample_points *)

\* A section is [samples, children]: the points of its samples and its child
\* sections.  An optional value is <<>> for None and <<value>> otherwise.

\* xform_pt: (matrix * pt.to_4d()).to_3d()
xform_pt(m, pt) == [c \in 1..3 |-> Dot(m[c], pt \o <<1>>)]

\* matrix * other for 4 x 4 matrices
MatMul(m, other) ==
    [i \in 1..4 |->
        [j \in 1..4 |->
            m[i][1] * other[1][j] + m[i][2] * other[2][j]
                + m[i][3] * other[3][j] + m[i][4] * other[4][j]]]

\* the local function transform_subtree of transform_sample_points
RECURSIVE transform_subtree(_, _)
transform_subtree(m, section) ==
    [samples  |-> [i \in DOMAIN section.samples |->
                      xform_pt(m, section.samples[i])],
     children |-> [k \in DOMAIN section.children |->
                      transform_subtree(m, section.children[k])]]

\* the soma after "Transform soma"
TransformSoma(m, soma) ==
    [centroid |-> xform_pt(m, soma.centroid),
     profile_points |-> [i \in DOMAIN soma.profile_points |->
                            xform_pt(m, soma.profile_points[i])],
     arbors_profile_points |->
        IF soma.arbors_profile_points = <<>> THEN <<>>
        ELSE << [i \in DOMAIN soma.arbors_profile_points[1] |->
                    xform_pt(m, soma.arbors_profile_points[1][i])] >>]

has_axon(morph) == morph.axon # <<>>

has_apical_dendrite(morph) == morph.apical_dendrite # <<>>

\* Morphology.transform_sample_points: the morphology afterwards and how the
\* call ended.  self.transform_subtree is not an attribute of the instance
\* (transform_subtree is local to the method), so the branches for the axon
\* and the apical dendrite raise AttributeError after the soma was changed.
transform_sample_points(morph, m) ==
    LET soma_done == [morph EXCEPT !.soma = TransformSoma(m, morph.soma)]
    IN IF has_axon(morph)
       THEN [status |-> "AttributeError", morph |-> soma_done]
       ELSE IF has_apical_dendrite(morph)
       THEN [status |-> "AttributeError", morph |-> soma_done]
       ELSE [status |-> "returned",
             morph |-> [soma_done EXCEPT
                          !.dendrites =
                              [k \in DOMAIN morph.dendrites |->
                                  transform_subtree(m, morph.dendrites[k])],
                          !.matrix_world = MatMul(m, morph.matrix_world)]]

\* the points of the model morphologies
MorphPoints == {<<0, 0, 0>>, <<1, 2, 0>>}

\* sections without children, with one sample
LeafSections == {[samples |-> <<pt>>, children |-> <<>>] : pt \in MorphPoints}

\* sections with at most one child section
Sections ==
    LeafSections \cup
        {[samples |-> <<pt>>, children |-> <<leaf>>] :
            pt \in MorphPoints, leaf \in LeafSections}

\* somata: a centroid, one profile point, arbor profile points or None
Somata ==
    {[centroid |-> c, profile_points |-> <<pp>>, arbors_profile_points |-> app] :
        c \in MorphPoints, pp \in {<<1, 2, 0>>},
        app \in {<<>>, << << <<0, 0, 0>> >> >>}}

\* the transforms applied to a morphology before: none, or a translation
WorldMatrices ==
    {<< <<1, 0, 0, 0>>, <<0, 1, 0, 0>>, <<0, 0, 1, 0>>, <<0, 0, 0, 1>> >>,
     << <<1, 0, 0, 1>>, <<0, 1, 0, 2>>, <<0, 0, 1, 3>>, <<0, 0, 0, 1>> >>}

Morphologies ==
    {[soma |-> so, axon |-> ax, apical_dendrite |-> ap, dendrites |-> de,
      matrix_world |-> mw] :
        so \in Somata,
        ax \in {<<>>} \cup {<<sec>> : sec \in Sections},
        ap \in {<<>>} \cup {<<sec>> : sec \in LeafSections},
        de \in UNION {[1..n -> Sections] : n \in 0..MaxDendrites},
        mw \in WorldMatrices}

IdleMorph ==
    /\ morphology = <<>>
    /\ matrix = <<>>
    /\ transform_status = "done"

InitMorph ==
    /\ morphology \in Morphologies
    /\ matrix \in Transforms
    /\ transform_status = "idle"

\* a caller, such as ExportMorphologies, transforms the sample points
TransformSamplePoints ==
    /\ transform_status = "idle"
    /\ LET done == transform_sample_points(morphology, matrix)
       IN /\ morphology' = done.morph
          /\ transform_status' = done.status
    /\ UNCHANGED <<matrix, circuitVars, nurbsVars, loadVars, samplesVars,
                   dupVars, exportVars, toggleVars, knotVars>>

----------------------------------------------------------------------------
(* geometry/spline.py: knots *)

\* A knot value is a fraction <<numerator, denominator>>, denominator > 0.
\* a / b for fractions, b not zero
FracDiv(a, b) == <<a[1] * b[2], a[2] * b[1]>>

\* type 0: kv.append(1.0 * i) for i in range(0, t)
UniformKnots(t) == [i \in 1..t |-> <<i - 1, 1>>]

\* the loop of type 1 with the increment of k one step late
RECURSIVE EndpointLoop_late(_, _, _, _, _)
EndpointLoop_late(i, k, acc, n, order) ==
    IF i > n + order THEN acc
    ELSE EndpointLoop_late(i + 1,
                           IF i > order /\ i <= n THEN k + 1 ELSE k,
                           Append(acc, <<k, 1>>), n, order)

\* type 1: the loop "for i in range(1, t+1)" from step i on, with the
\* current k and the values appended so far
RECURSIVE EndpointLoop(_, _, _, _, _)
EndpointLoop(i, k, acc, n, order) ==
    IF i > n + order THEN acc
    ELSE EndpointLoop(i + 1,
                      IF i >= order /\ i <= n THEN k + 1 ELSE k,
                      Append(acc, <<k, 1>>), n, order)

\* the normalisation loop, in place: kv[i] = kv[i] / kv[-1] from index i on;
\* the division of a float by 0.0 raises ZeroDivisionError
RECURSIVE Normalise(_, _)
Normalise(vec, i) ==
    IF i > Len(vec) THEN [status |-> "returned", value |-> vec]
    ELSE IF vec[Len(vec)][1] = 0
    THEN [status |-> "ZeroDivisionError", value |-> <<>>]
    ELSE Normalise([vec EXCEPT ![i] = FracDiv(vec[i], vec[Len(vec)])], i + 1)

\* knots(n, order, type) for the types calct passes: spl.use_endpoint_u is
\* False (0, uniform) or True (1, endpoint)
knots(n, order, type) ==
    LET t == n + order
        filled == IF type = 0 THEN UniformKnots(t)
                  ELSE EndpointLoop(1, 0, <<>>, n, order)
    IN Normalise(filled, 1)

IdleKnots ==
    /\ knots_n = 0
    /\ knots_order = 0
    /\ knots_type = 0
    /\ kv = <<>>

InitKnots ==
    /\ knots_n \in 1..MaxKnotPoints
    /\ knots_order \in 1..MaxKnotOrder
    /\ knots_type \in {0, 1}
    /\ kv = <<>>

\* calct evaluates a NURBS spline and builds its knot vector
Calct ==
    /\ knots_n > 0
    /\ kv = <<>>
    /\ kv' = << knots(knots_n, knots_order, knots_type) >>
    /\ UNCHANGED <<knots_n, knots_order, knots_type, circuitVars, nurbsVars,
                   loadVars, samplesVars, dupVars, exportVars, toggleVars,
                   morphVars>>

----------------------------------------------------------------------------
(* The specifications *)

\* the functions checked on their own are at rest
IdlePure ==
    IdleNurbs /\ IdleLoad /\ IdleSamples /\ IdleDup /\ IdleExport
        /\ IdleToggle /\ IdleMorph /\ IdleKnots

Init == InitCircuit /\ IdlePure

\* ImportMorphology, Neuron.duplicate and the load_post handler
ImportNeuron == ImportUpTo(MaxNeurons)

DuplicateNeuron == DuplicateUpTo(MaxNeurons)

ConstructImport == ImportUpTo(MaxGids)

ConstructDuplicate == DuplicateUpTo(MaxGids)

ConstructRestore == RestoreUpTo(MaxGids)

\* Neuron(swc_file=..., swc_samples=...): both sources of samples are given
ConstructBoth ==
    /\ \E swc_file \in SwcFiles :
          Commit(NeuronInit(World, "", ReadSamples(swc_file), swc_file, 0,
                            TRUE),
                 "Neuron_both")
    /\ UNCHANGED <<selected, circuit_file, DefinedPopLabels, pureVars>>

\* the operators of the circuit builder on axons
NextAxon ==
    \/ SelectObjects
    \/ ImportNeuron
    \/ DuplicateNeuron
    \/ SetAxonPreCell
    \/ SetAxonPostCell
    \/ ExportCircuit
    \/ ToggleAxonExport

SpecAxon == Init /\ [][NextAxon]_vars

\* the population operator
NextPop ==
    \/ SelectObjects
    \/ ImportNeuron
    \/ DuplicateNeuron
    \/ ChoosePopulation
    \/ AssignPopulation

SpecPop == Init /\ [][NextPop]_vars

\* the constructions of Neuron instances
NextGid ==
    \/ ConstructImport
    \/ ConstructDuplicate
    \/ ConstructRestore

SpecGid == Init /\ [][NextGid]_vars

\* the conversion of polylines to NURBS curves
InitNurbsSpec ==
    InitCircuit /\ InitNurbs /\ IdleLoad /\ IdleSamples /\ IdleDup
        /\ IdleExport
        /\ IdleToggle /\ IdleMorph /\ IdleKnots

NextNurbs ==
    \/ PolylineToSpline

SpecNurbs == InitNurbsSpec /\ [][NextNurbs]_vars

\* the loading of streamline files
InitLoadSpec ==
    InitCircuit /\ IdleNurbs /\ InitLoad /\ IdleSamples /\ IdleDup
        /\ IdleExport
        /\ IdleToggle /\ IdleMorph /\ IdleKnots

NextLoad ==
    \/ LoadStreamlines

SpecLoad == InitLoadSpec /\ [][NextLoad]_vars

\* the transformation of the samples of a neuron
InitSamplesSpec ==
    InitCircuit /\ IdleNurbs /\ IdleLoad /\ InitSamples /\ IdleDup
        /\ IdleExport
        /\ IdleToggle /\ IdleMorph /\ IdleKnots

NextSamples ==
    \/ GetTransformedSamples

SpecSamples == InitSamplesSpec /\ [][NextSamples]_vars

\* the placement of the duplicates of a morphology
InitDupSpec ==
    InitCircuit /\ IdleNurbs /\ IdleLoad /\ IdleSamples /\ InitDup
        /\ IdleExport
        /\ IdleToggle /\ IdleMorph /\ IdleKnots

NextDup ==
    \/ MakeDuplicateOrigins
    \/ MakeDuplicateOriginsDbs

SpecDup == InitDupSpec /\ [][NextDup]_vars

\* the export of morphologies
InitExportSpec ==
    InitCircuit /\ IdleNurbs /\ IdleLoad /\ IdleSamples /\ IdleDup
        /\ InitExport
        /\ IdleToggle /\ IdleMorph /\ IdleKnots

NextExport ==
    \/ ExportMorphologies

SpecExport == InitExportSpec /\ [][NextExport]_vars

\* the construction of neurons, failed constructions included
NextCtor ==
    \/ ConstructImport
    \/ ConstructDuplicate
    \/ ConstructRestore
    \/ ConstructBoth

SpecCtor == Init /\ [][NextCtor]_vars

\* runs of axon.toggle_export between changes of the selection
NextToggle ==
    \/ SelectObjects
    \/ InvokeToggleAxonExport

SpecToggle == Init /\ [][NextToggle]_vars

\* the transformation of the sample points of a morphology
InitMorphSpec ==
    InitCircuit /\ IdleNurbs /\ IdleLoad /\ IdleSamples /\ IdleDup
        /\ IdleExport /\ IdleToggle /\ InitMorph /\ IdleKnots

NextMorph ==
    \/ TransformSamplePoints

SpecMorph == InitMorphSpec /\ [][NextMorph]_vars

\* the construction of knot vectors
InitKnotsSpec ==
    InitCircuit /\ IdleNurbs /\ IdleLoad /\ IdleSamples /\ IdleDup
        /\ IdleExport /\ IdleToggle /\ IdleMorph /\ InitKnots

NextKnots ==
    \/ Calct

SpecKnots == InitKnotsSpec /\ [][NextKnots]_vars

----------------------------------------------------------------------------
(* Properties of the circuit builder *)

\* the selected objects typed as streamlines
SelStreamlines == {i \in selected : get_nmv_type(objects[i]) = STREAMLINE}

\* the GIDs carried by the selected objects that represent neurons
SelNeuronGids ==
    {objects[i].props[CELL_GID][1] :
        i \in {j \in selected : /\ get_nmv_type(objects[j]) \in NEURON_TYPES
                                 /\ Has(objects[j], CELL_GID)}}

\* the target GIDs an axon object holds
PostGids(obj) == Range(Get(obj, AX_POST_GIDS, <<>>))

\* C1: SetAxonPostCell appends.  When at least one streamline and at least
\* one neuron object carrying a CELL_GID are selected, each selected
\* streamline's target-GID list afterwards contains every GID it held before
\* plus the GIDs of all selected neurons; and over any sequence of calls no
\* axon ever loses a target GID.
C1_PostCellAppends ==
    [][report'.op = "SetAxonPostCell" =>
        /\ (SelStreamlines # {} /\ SelNeuronGids # {}) =>
              \A i \in SelStreamlines :
                 (PostGids(objects[i]) \cup SelNeuronGids)
                    \subseteq PostGids(objects'[i])
        /\ \A i \in DOMAIN objects :
              PostGids(objects[i]) \subseteq PostGids(objects'[i])]_vars

\* C2: SetAxonPreCell postcondition.  After the operator has run with
\* exactly one registered neuron and at least one streamline among the
\* selected objects, every selected streamline carries AX_PRE_GID equal to
\* that neuron's GID and AX_PRE_NAME equal to its label.
C2_PreCellPostcondition ==
    LET selected_neurons ==
            get_neurons_from_blend_objects(objects, neurons, selected)
    IN (/\ report.op = "SetAxonPreCell"
        /\ Cardinality(selected_neurons) = 1
        /\ SelStreamlines # {})
       => \A i \in SelStreamlines : \A n \in selected_neurons :
             /\ objects[i].props[AX_PRE_GID] = <<n.gid>>
             /\ objects[i].props[AX_PRE_NAME] = <<n.label>>

\* the streamline objects of the scene marked for export
ExportMarked ==
    {i \in DOMAIN objects : /\ get_nmv_type(objects[i]) = STREAMLINE
                            /\ Get(objects[i], INCLUDE_EXPORT, FALSE)}

\* C3: ExportCircuit produces a configuration with exactly one 'cells'
\* entry per neuron in the registry (gid, label as morphology) and exactly
\* one 'connections' entry per streamline marked for export (axon, pre_gid,
\* post_gids), and none for a streamline that is not marked.
C3_ExportCircuitEntries ==
    report.op = "ExportCircuit" =>
        /\ circuit_file # <<>>
        /\ LET cfg == circuit_file[1]
           IN /\ Len(cfg.cells) = Cardinality(DOMAIN neurons)
              /\ \A g \in DOMAIN neurons :
                    \E k \in DOMAIN cfg.cells :
                       /\ cfg.cells[k].gid = g
                       /\ cfg.cells[k].morphology = neurons[g].label
              /\ Len(cfg.connections) = Cardinality(ExportMarked)
              /\ {cfg.connections[k].axon : k \in DOMAIN cfg.connections}
                    = ExportMarked
              /\ \A k \in DOMAIN cfg.connections :
                    LET ax == objects[cfg.connections[k].axon]
                    IN /\ cfg.connections[k].pre_gid = ax.props[AX_PRE_GID]
                       /\ cfg.connections[k].post_gids
                             = Get(ax, AX_POST_GIDS, <<>>)

\* C4: each constructed Neuron receives a GID strictly greater than every
\* GID issued before it (whether built by import, duplicate or restore), so
\* no two Neuron instances share a GID, and the counter is past them all.
C4_GidsStrictlyIncrease ==
    /\ \A i \in DOMAIN constructed : \A j \in DOMAIN constructed :
          i < j => constructed[i].gid < constructed[j].gid
    /\ \A i \in DOMAIN constructed : constructed[i].gid < gid_counter

\* C4 witness: an import, a duplicate and a restore have all constructed
\* neurons in one session
C4_Witness ==
    /\ report.op = "load_post"
    /\ Len(constructed) >= 4
    /\ \E k \in DOMAIN constructed : constructed[k].label \in DupLabels
    /\ \E k \in DOMAIN constructed :
          constructed[k].label = GidLabel("neuron", constructed[k].gid)
    /\ \E k \in DOMAIN constructed : \E f \in SwcFiles :
          constructed[k].label = GidLabel(f, constructed[k].gid)

\* C10: after AssignPopulation every selected object that represents a
\* neuron cell (neuron_geometry, neuron_proxy, or untyped, which becomes a
\* neuron_proxy) carries POP_LABEL equal to the chosen label, and selected
\* objects of any other type are unchanged.
C10_AssignPopulationLabels ==
    [][report'.op = "AssignPopulation" =>
        \A i \in selected :
           LET t == get_nmv_type(objects[i])
           IN IF t \in NEURON_TYPES \cup {"None"}
              THEN /\ objects'[i].props[POP_LABEL] = <<DefinedPopLabels>>
                   /\ get_nmv_type(objects'[i]) =
                         (IF t = "None" THEN NEURON_PROXY ELSE t)
              ELSE objects'[i] = objects[i]]_vars

----------------------------------------------------------------------------
(* Properties of the streamline functions *)

\* C5: polyline_to_nurbs always includes the last point.  For every
\* polyline and subsample factor the control points start with the polyline
\* points at indices 0, s, 2s, ..., and the final polyline point is the last
\* control point and appears exactly once, never missing, never duplicated.
C5_LastPointOnce ==
    ctl_pts # <<>> =>
        LET last == tck_pts[Len(tck_pts)]
            strided == Slice(tck_pts, subsample)
        IN /\ \A k \in DOMAIN strided :
                 k \in DOMAIN ctl_pts /\ ctl_pts[k] = strided[k]
           /\ ctl_pts[Len(ctl_pts)] = last
           /\ Cardinality({k \in DOMAIN ctl_pts : ctl_pts[k] = last}) = 1

\* a streamline qualifies when it is at least min_length long, and always
\* when min_length <= 0
Qualifies(streamline) ==
    min_length <= 0 \/ PolylineLength(streamline) >= min_length

\* the first n entries of a sequence, all of them if it has fewer
FirstN(seq, n) == SubSeq(seq, 1, IF Len(seq) < n THEN Len(seq) ELSE n)

\* C6: load_streamlines returns, in file order, exactly the first max_num
\* streamlines whose polyline length is at least min_length (every
\* streamline qualifies when min_length <= 0); the result never has more
\* than max_num entries and never holds a streamline shorter than
\* min_length.
C6_FirstQualifying ==
    streamlines_filtered # <<>> =>
        LET result == streamlines_filtered[1]
        IN /\ result = FirstN(SelectSeq(file_streamlines, Qualifies), max_num)
           /\ Len(result) <= max_num
           /\ \A k \in DOMAIN result :
                 PolylineLength(result[k]) >= min_length

\* C6 witness: a call that dropped a streamline for its length, kept a
\* later one, and stopped at max_num with a qualifying streamline left
C6_Witness ==
    /\ streamlines_filtered # <<>>
    /\ min_length > 0
    /\ max_num > 0
    /\ Len(streamlines_filtered[1]) = max_num
    /\ Len(SelectSeq(file_streamlines, Qualifies)) > max_num
    /\ ~Qualifies(file_streamlines[1])

----------------------------------------------------------------------------
(* Properties of the morphology functions *)

\* C7: get_transformed_samples returns the stored samples with the
\* transform applied to x, y and z only: the id, type, radius and parent
\* columns of every returned row equal those of the stored sample, and the
\* stored swc_samples are not modified by the call.
C7_OnlyCoordinatesChange ==
    [][transformed_samples' # <<>> =>
        LET result == transformed_samples'[1]
        IN /\ Len(result) = Len(self_swc_samples)
           /\ \A r \in DOMAIN result : \A c \in {1, 2, 6, 7} :
                 result[r][c] = self_swc_samples[r][c]
           /\ self_swc_samples' = self_swc_samples]_vars

\* the candidate origins that lie inside the boundary volume
InsideCandidates ==
    InsideOnly(Candidates(layout_method, bbox_dims, random_pts), inside_pts)

\* value holds exactly maxd of the candidates, none further from the source
\* than a candidate left out
NearestKept(value, cand, src, maxd) ==
    /\ Len(value) = maxd
    /\ \E f \in [1..maxd -> DOMAIN cand] :
          /\ \A i \in 1..maxd : \A j \in 1..maxd : i # j => f[i] # f[j]
          /\ \A i \in 1..maxd : value[i] = cand[f[i]]
          /\ \A j \in DOMAIN cand :
                (\A i \in 1..maxd : f[i] # j) =>
                   \A i \in 1..maxd :
                      SqDist(value[i], src) <= SqDist(cand[j], src)

\* what a call of make_duplicate_origins that ended has to have done
OriginsWithinMaximum ==
    /\ Len(dup_origins.value) <= max_duplicates
    /\ Len(InsideCandidates) > max_duplicates =>
          /\ dup_origins.status = "returned"
          /\ NearestKept(dup_origins.value, InsideCandidates, src_loc,
                         max_duplicates)

\* C8: make_duplicate_origins, of either panel, never returns more than
\* MaxCellDuplicates origins, and when more candidates lie inside the
\* boundary volume than the maximum it keeps exactly the MaxCellDuplicates
\* candidates nearest to the source object's location.
C8_KeepsNearest ==
    dup_origins.status \notin {"idle", "done"} => OriginsWithinMaximum

\* C8, for make_duplicate_origins of cellpos_panel alone
C8_KeepsNearestCellpos ==
    dup_origins.panel = "cellpos" => OriginsWithinMaximum

\* C9: ExportMorphologies, run with a valid output directory, writes only
\* the selected morphology when the active object belongs to a known
\* morphology, and writes all loaded morphologies only when no specific
\* morphology is selected.
C9_ExportsSelection ==
    (export_report \notin {"idle", "done"} /\ output_directory = "ok") =>
        LET selected_morphology ==
                get_morphology_from_object(ui_morphologies,
                    ui_reconstructed_skeletons, active_object)
        IN IF selected_morphology # ""
           THEN exported_files = <<selected_morphology>>
           ELSE exported_files = ui_morphologies

\* the most recent run of ToggleAxonExport
LastRun == toggle_log[Len(toggle_log)]

\* the curves that were selected when the run started
SelectedCurves(run) == {i \in run.sel : run.before[i].btype = "CURVE"}

\* the run gave each selected curve its flag and left other objects alone
FlagsSet(run) ==
    /\ DOMAIN objects = DOMAIN run.before
    /\ \A i \in SelectedCurves(run) :
          /\ objects[i].props[INCLUDE_EXPORT] # <<>>
          /\ ExportFlag(objects[i]) =
                 IF run.toggle THEN ~ ExportFlag(run.before[i])
                 ELSE run.export
    /\ \A i \in DOMAIN objects \ SelectedCurves(run) :
          objects[i] = run.before[i]
    /\ SelectedCurves(run) # {} => run.status = "FINISHED"
    /\ SelectedCurves(run) = {} =>
          /\ run.status = "ERROR"
          /\ objects = run.before

\* two runs in a row with toggle = True on the same selection
ToggledTwice ==
    /\ Len(toggle_log) = 2
    /\ toggle_log[1].toggle
    /\ toggle_log[2].toggle
    /\ toggle_log[1].sel = toggle_log[2].sel

\* C11: ToggleAxonExport sets each selected curve's export flag to the
\* negation of its previous value (absent counts as false) when toggle is
\* true, and to the export argument when toggle is false; invoking it twice
\* with toggle = true on the same selection restores every flag, and objects
\* that are not selected curves keep their flag.  With no curve selected it
\* reports an error and changes nothing.
C11_ToggleExportFlags ==
    toggle_log # <<>> =>
        /\ FlagsSet(LastRun)
        /\ ToggledTwice =>
              \A i \in DOMAIN objects :
                  ExportFlag(objects[i]) = ExportFlag(toggle_log[1].before[i])

\* C11: two toggling runs on a selection with a curve whose flag was absent,
\* while a curve outside the selection carries a flag
C11_Witness ==
    /\ ToggledTwice
    /\ \E i \in SelectedCurves(toggle_log[1]) :
          toggle_log[1].before[i].props[INCLUDE_EXPORT] = <<>>
    /\ \E i \in DOMAIN objects \ SelectedCurves(LastRun) :
          /\ objects[i].btype = "CURVE"
          /\ ExportFlag(objects[i])

\* every sample point of the subtree is the matrix applied to the point of
\* the subtree before; <<>> is None
SubtreeTransformed(after, before, m) ==
    IF before = <<>> THEN after = <<>>
    ELSE after = <<transform_subtree(m, before[1])>>

\* C12: transform_sample_points(M) completes for every morphology, with or
\* without an axon or apical dendrite, and afterwards the soma centroid,
\* every soma profile point and every sample point of every section of the
\* axon, apical dendrite and basal dendrite subtrees equals M applied to
\* its previous value, and matrix_world equals M times the previous
\* matrix_world.
C12_TransformsEverySample ==
    [][(transform_status = "idle" /\ transform_status' # "idle") =>
          /\ transform_status' = "returned"
          /\ morphology'.soma.centroid =
                 xform_pt(matrix, morphology.soma.centroid)
          /\ morphology'.soma.profile_points =
                 [i \in DOMAIN morphology.soma.profile_points |->
                     xform_pt(matrix, morphology.soma.profile_points[i])]
          /\ SubtreeTransformed(morphology'.axon, morphology.axon, matrix)
          /\ SubtreeTransformed(morphology'.apical_dendrite,
                                morphology.apical_dendrite, matrix)
          /\ morphology'.dendrites =
                 [k \in DOMAIN morphology.dendrites |->
                     transform_subtree(matrix, morphology.dendrites[k])]
          /\ morphology'.matrix_world =
                 MatMul(matrix, morphology.matrix_world)]_vars

\* C13: constructing a Neuron with both swc_file and swc_samples given
\* raises ValueError and has no effect: no GID is consumed (the next Neuron
\* gets the GID it would have received otherwise), and the neuron registry
\* and the scene are unchanged.
C13_BothSourcesNoEffect ==
    [][/\ report'.op = "Neuron_both" =>
             /\ report'.status = "ValueError"
             /\ UNCHANGED <<objects, neurons, nm_group, gid_counter,
                            constructed>>
       /\ \A k \in DOMAIN constructed' : constructed'[k].gid = k - 1
       /\ Len(constructed') > Len(constructed) =>
             constructed'[Len(constructed) + 1].gid = gid_counter]_vars

\* C13: the construction failed after neurons were constructed, and GIDs are
\* left for the next neuron
C13_Witness ==
    /\ report.op = "Neuron_both"
    /\ report.status = "ValueError"
    /\ Len(constructed) >= 1
    /\ gid_counter = Len(constructed)
    /\ gid_counter < MaxGids

\* the neurons of the registry that hold the object i as geometry
OwnersOf(i) ==
    {g \in DOMAIN neurons : \E k \in DOMAIN neurons[g].geometry :
                                 neurons[g].geometry[k] = i}

\* C14: after restore_neurons_from_blend_data runs, the neuron registry holds
\* exactly one neuron for each object in the blend data that is typed
\* neuron_geometry with SWC structure id 1 (soma), and no other entries, also
\* when the registry was not empty before the load or when the handler runs
\* more than once in a session.
C14_RegistryMatchesSomas ==
    (report.op = "load_post" /\ report.status = "FINISHED") =>
        /\ Cardinality(DOMAIN neurons) = Cardinality(SomaObjects(objects))
        /\ \A i \in SomaObjects(objects) : Cardinality(OwnersOf(i)) = 1

\* a / b <= c / d for fractions with positive denominators
FracLeq(a, b) == a[1] * b[2] <= b[1] * a[2]

FracIsZero(a) == a[1] = 0

FracIsOne(a) == a[1] = a[2]

\* C15: for knot types 0 (uniform) and 1 (endpoint) and any n >= order >= 1,
\* knots(n, order, type) returns a vector of exactly n + order values that
\* is non-decreasing, starts at 0 and ends at 1 after normalisation; for
\* type 1 the first order values are all 0 and the last order values are
\* all 1.
C15_KnotVector ==
    (kv # <<>> /\ knots_n >= knots_order) =>
        LET t == knots_n + knots_order
            v == kv[1].value
        IN /\ kv[1].status = "returned"
           /\ Len(v) = t
           /\ \A i \in 1..(t - 1) : FracLeq(v[i], v[i + 1])
           /\ FracIsZero(v[1])
           /\ FracIsOne(v[t])
           /\ knots_type = 1 =>
                 /\ \A i \in 1..knots_order : FracIsZero(v[i])
                 /\ \A i \in (knots_n + 1)..t : FracIsOne(v[i])

\* C15: an endpoint knot vector with inner knots and repeated end knots
C15_Witness ==
    /\ kv # <<>>
    /\ kv[1].status = "returned"
    /\ knots_type = 1
    /\ knots_order > 1
    /\ knots_n > knots_order + 1

====
